---- MODULE Spec2Model ----
(***************************************************************************)
(* RigelEngine in-game mode controller (src/src/ingame_mode.cpp) and the   *)
(* debugging system it drives (src/unnamed/part_000).                      *)
(*                                                                         *)
(* The controller is single threaded.  Its two entry points, handleEvent   *)
(* and updateAndRender, are modelled statement by statement: pc names the  *)
(* statement about to run, depth counts the updateAndRender activations    *)
(* that restartLevel has nested inside the running one, and trace records  *)
(* the calls the running top-level invocation has made so far.             *)
(***************************************************************************)
EXTENDS Integers, Sequences, FiniteSets, TLC

VARIABLES
  mPlayerInputs,            \* PlayerInputState: the six level-triggered flags
  mShowDebugText,           \* IngameMode::mShowDebugText
  mShowBoundingBoxes,       \* DebuggingSystem::mShowBoundingBoxes
  mShowWorldCollisionData,  \* DebuggingSystem::mShowWorldCollisionData
  mShowGrid,                \* DebuggingSystem::mShowGrid
  mLevelFinished,           \* IngameMode::mLevelFinished
  mPlayerModel,             \* data::PlayerModel (health)
  mPlayerModelAtLevelStart, \* snapshot taken in the constructor
  mLevelData,               \* LevelData: mMap and mInitialActors
  mMapAtLevelStart,         \* snapshot taken in loadLevel
  entities,                 \* mEntities.entities, in index order
  mPlayerEntity,            \* handle (index) of the player entity
  systemsPlayerEntity,      \* handle the player systems were constructed with
  mScrollOffset,            \* camera position written by MapScrollSystem
  pc,                       \* statement about to run, "idle" between calls
  depth,                    \* nesting of updateAndRender inside restartLevel
  dt,                       \* dt of the running updateAndRender activation
  iter,                     \* cursor of entities.each in checkForLevelExitReached
  trace,                    \* calls made by the running top-level invocation
  drawn                     \* draw calls of the latest DebuggingSystem::update

vars == <<mPlayerInputs, mShowDebugText, mShowBoundingBoxes,
          mShowWorldCollisionData, mShowGrid, mLevelFinished, mPlayerModel,
          mPlayerModelAtLevelStart, mLevelData, mMapAtLevelStart, entities,
          mPlayerEntity, systemsPlayerEntity, mScrollOffset, pc, depth, dt,
          iter, trace, drawn>>

\* Everything the controller owns except its control position and call log.
controllerState == <<mPlayerInputs, mShowDebugText, mShowBoundingBoxes,
                     mShowWorldCollisionData, mShowGrid, mLevelFinished,
                     mPlayerModel, mPlayerModelAtLevelStart, mLevelData,
                     mMapAtLevelStart, entities, mPlayerEntity,
                     systemsPlayerEntity, mScrollOffset>>

debugFlags == <<mShowDebugText, mShowBoundingBoxes, mShowWorldCollisionData,
                mShowGrid>>

world == <<mPlayerModel, mLevelData, entities, mPlayerEntity, mScrollOffset>>

\* What is fixed when the level is loaded and never written afterwards.
snapshots == <<mPlayerModelAtLevelStart, mMapAtLevelStart, systemsPlayerEntity>>

(***************************************************************************)
(* Bounds of the model.                                                    *)
(***************************************************************************)
MaxX           == 12  \* largest tile column the player reaches
MaxHealth      == 2   \* largest health value of the player model
MaxProjectiles == 1   \* projectiles alive at once
MaxScroll      == 1   \* largest camera column

Xs  == 6..MaxX  \* tile columns the player reaches
Ys  == 4..6     \* tile rows the player reaches
Dts == {0, 1}   \* dt of a frame: no time elapsed, or one time step

(***************************************************************************)
(* Level data as the loader returns it.  An actor descriptor names what    *)
(* the entity factory creates from it and where.                           *)
(***************************************************************************)
Actor(kind, trigger, x, y) ==
  [kind |-> kind, trigger |-> trigger, pos |-> [x |-> x, y |-> y]]

\* One LevelExit trigger; the player starts below it.
SingleExitLevel ==
  << Actor("Player", "None", 8, 6), Actor("Trigger", "LevelExit", 10, 5) >>

\* Two LevelExit triggers around a trigger of another type; the player
\* starts on the first exit.
TwoExitLevel ==
  << Actor("Trigger", "LevelExit", 10, 5), Actor("Trigger", "Other", 12, 6),
     Actor("Player", "None", 9, 5), Actor("Trigger", "LevelExit", 7, 5) >>

Levels == {SingleExitLevel, TwoExitLevel}

\* A map tile: the edges it is solid on and its tile attributes.
Tile(edges, attributes) == [edges |-> edges, attributes |-> attributes]

SolidEdges == <<"top", "right", "bottom", "left">>

AllEdges == {SolidEdges[i] : i \in 1..Len(SolidEdges)}

\* The loaded map: its extents and its destructible tiles that still stand,
\* keyed by <<col, row>>; every other tile is empty.
LoadedMap ==
  [width  |-> MaxX + 4,
   height |-> 8,
   tiles  |-> (<<11, 6>> :> Tile(AllEdges, {}))]

\* playerPositionOverride of the constructor: absent, or a position.
PositionOverrides == {<<>>, <<[x |-> 12, y |-> 6]>>}

\* Bounding box of the player entity, in tiles, relative to its position.
PlayerBBox == [topLeft |-> [x |-> 0, y |-> 0], size |-> [width |-> 3, height |-> 2]]

PlayerStates == {"Standing", "Walking", "Dead"}

(***************************************************************************)
(* Entity store and entity factory.                                        *)
(***************************************************************************)
\* EntityFactory::createEntitiesForLevel: one entity per actor descriptor, in
\* list order, the player standing; returns the player entity's handle.
createEntitiesForLevel(actors) ==
  [ents   |-> [i \in 1..Len(actors) |->
                 [kind    |-> actors[i].kind,
                  trigger |-> actors[i].trigger,
                  pos     |-> actors[i].pos,
                  mState  |-> IF actors[i].kind = "Player" THEN "Standing" ELSE "None"]],
   player |-> CHOOSE i \in 1..Len(actors) : actors[i].kind = "Player"]

\* EntityFactory::createProjectile, reached through the AttackSystem callback.
createProjectile(pos) ==
  [kind |-> "Projectile", trigger |-> "None", pos |-> pos, mState |-> "None"]

\* The position the attack system passes to the callback.  The flight of a
\* projectile is not modelled: every projectile is recorded at one position
\* off the playfield.
ProjectileSpawn == [x |-> 0, y |-> 0]

NumProjectiles == Cardinality({i \in 1..Len(entities) : entities[i].kind = "Projectile"})

\* entities.each<Trigger, WorldPosition>: the next entity after index i that
\* carries both components, Len(entities) + 1 when there is none.
NextTrigger(i) ==
  LET later == {j \in (i + 1)..Len(entities) : entities[j].kind = "Trigger"}
  IN  IF later = {} THEN Len(entities) + 1
      ELSE CHOOSE j \in later : \A k \in later : j <= k

\* engine::toWorldSpace with Rect::left/right/bottom: an entity's position is
\* the bottom-left tile of its box.
toWorldSpace(bbox, pos) ==
  LET left == pos.x + bbox.topLeft.x
      bottom == pos.y + bbox.topLeft.y
  IN  [left   |-> left,
       right  |-> left + (bbox.size.width - 1),
       top    |-> bottom - (bbox.size.height - 1),
       bottom |-> bottom]

Player == entities[mPlayerEntity]

\* Entity::valid of the entity store: the handle denotes a live entity.
valid(handle) == handle \in DOMAIN entities

\* Lines 297-350: the entity the player systems reach through the handle
\* they were constructed with.
SystemsPlayer == entities[systemsPlayerEntity]

(***************************************************************************)
(* Init: the state the constructor leaves (lines 95-136, 277-353).         *)
(***************************************************************************)
NoInputs ==
  [mMovingUp |-> FALSE, mMovingDown |-> FALSE, mMovingLeft |-> FALSE,
   mMovingRight |-> FALSE, mJumping |-> FALSE, mShooting |-> FALSE]

Init ==
  \E level \in Levels, health \in 1..MaxHealth, override \in PositionOverrides :
    LET created == createEntitiesForLevel(level)
    IN  /\ mPlayerInputs = NoInputs
        /\ mShowDebugText = FALSE
        /\ mShowBoundingBoxes = FALSE
        /\ mShowWorldCollisionData = FALSE
        /\ mShowGrid = FALSE
        /\ mLevelFinished = FALSE
        /\ mPlayerModel = [mHealth |-> health]
        /\ mPlayerModelAtLevelStart = [mHealth |-> health]
        /\ mLevelData = [mMap |-> LoadedMap, mInitialActors |-> level]
        /\ mMapAtLevelStart = LoadedMap
        /\ mPlayerEntity = created.player
        /\ systemsPlayerEntity = created.player
        /\ entities =
             IF override = <<>> THEN created.ents
             ELSE [created.ents EXCEPT ![created.player].pos = override[1]]
        /\ mScrollOffset = [x |-> 0, y |-> 0]
        /\ pc = "idle"
        /\ depth = 0
        /\ dt = 0
        /\ iter = 0
        /\ trace = <<>>
        /\ drawn = <<>>

(***************************************************************************)
(* Control helpers.                                                        *)
(***************************************************************************)
\* One statement: control moves from `from` to `to` and the call is logged.
Goto(from, to, call) ==
  /\ pc = from
  /\ pc' = to
  /\ trace' = Append(trace, call)

\* updateAndRender returns: to its caller when no restart nests it, and to
\* restartLevel (line 415) when it is the call of line 413.
ReturnFromUpdateAndRender ==
  IF depth = 0
    THEN pc' = "idle" /\ depth' = 0 /\ dt' = 0 /\ iter' = 0
    ELSE pc' = "fadeIn" /\ depth' = depth - 1 /\ dt' = dt /\ iter' = 0

(***************************************************************************)
(* handleEvent (lines 139-188).                                            *)
(***************************************************************************)
EventTypes == {"SDL_KEYDOWN", "SDL_KEYUP", "SDL_MOUSEMOTION"}

Keys == {"SDLK_UP", "SDLK_DOWN", "SDLK_LEFT", "SDLK_RIGHT", "SDLK_LCTRL",
         "SDLK_RCTRL", "SDLK_LALT", "SDLK_RALT", "SDLK_b", "SDLK_c", "SDLK_d",
         "SDLK_x"}

Events == [type : EventTypes, sym : Keys]

\* The events the frame specification feeds between frames: the debug-text
\* key, which changes what a frame does, and an event of another type.
FrameEvents ==
  { [type |-> "SDL_KEYUP", sym |-> "SDLK_d"],
    [type |-> "SDL_KEYDOWN", sym |-> "SDLK_d"],
    [type |-> "SDL_MOUSEMOTION", sym |-> "SDLK_x"] }

\* The first switch with the right-hand modifier keys left unbound.
InputsAfter_LeftModifiersOnly(inputs, sym, keyPressed) ==
  CASE sym = "SDLK_UP"    -> [inputs EXCEPT !.mMovingUp = keyPressed]
    [] sym = "SDLK_DOWN"  -> [inputs EXCEPT !.mMovingDown = keyPressed]
    [] sym = "SDLK_LEFT"  -> [inputs EXCEPT !.mMovingLeft = keyPressed]
    [] sym = "SDLK_RIGHT" -> [inputs EXCEPT !.mMovingRight = keyPressed]
    [] sym = "SDLK_LCTRL" -> [inputs EXCEPT !.mJumping = keyPressed]
    [] sym = "SDLK_LALT"  -> [inputs EXCEPT !.mShooting = keyPressed]
    [] OTHER -> inputs

\* The first switch (lines 144-166).
InputsAfter(inputs, sym, keyPressed) ==
  CASE sym = "SDLK_UP"    -> [inputs EXCEPT !.mMovingUp = keyPressed]
    [] sym = "SDLK_DOWN"  -> [inputs EXCEPT !.mMovingDown = keyPressed]
    [] sym = "SDLK_LEFT"  -> [inputs EXCEPT !.mMovingLeft = keyPressed]
    [] sym = "SDLK_RIGHT" -> [inputs EXCEPT !.mMovingRight = keyPressed]
    [] sym \in {"SDLK_LCTRL", "SDLK_RCTRL"} -> [inputs EXCEPT !.mJumping = keyPressed]
    [] sym \in {"SDLK_LALT", "SDLK_RALT"}   -> [inputs EXCEPT !.mShooting = keyPressed]
    [] OTHER -> inputs

\* toggleBoundingBoxDisplay flipping the grid flag as well.
toggleBoundingBoxDisplay_AlsoGrid ==
  /\ mShowBoundingBoxes' = ~mShowBoundingBoxes
  /\ mShowGrid' = ~mShowGrid
  /\ UNCHANGED mShowWorldCollisionData

\* DebuggingSystem::toggleBoundingBoxDisplay (part_000 lines 75-77).
toggleBoundingBoxDisplay ==
  /\ mShowBoundingBoxes' = ~mShowBoundingBoxes
  /\ UNCHANGED <<mShowWorldCollisionData, mShowGrid>>

\* DebuggingSystem::toggleWorldCollisionDataDisplay (part_000 lines 80-82).
toggleWorldCollisionDataDisplay ==
  /\ mShowWorldCollisionData' = ~mShowWorldCollisionData
  /\ UNCHANGED <<mShowBoundingBoxes, mShowGrid>>

\* toggleGridDisplay switching the grid on instead of flipping it.
toggleGridDisplay_SwitchOn ==
  /\ mShowGrid' = TRUE
  /\ UNCHANGED <<mShowBoundingBoxes, mShowWorldCollisionData>>

\* DebuggingSystem::toggleGridDisplay (part_000 lines 85-87).
toggleGridDisplay ==
  /\ mShowGrid' = ~mShowGrid
  /\ UNCHANGED <<mShowBoundingBoxes, mShowWorldCollisionData>>

\* What handleEvent logs first: the call and the event it was given.
Handled(event) == <<"handleEvent", event.type, event.sym>>

\* handleEvent without the test of the event type (lines 140-142).
handleEvent_NoTypeTest(event) ==
  /\ pc = "idle"
  /\ LET keyPressed == event.type = "SDL_KEYDOWN"
     IN  /\ mPlayerInputs' = InputsAfter(mPlayerInputs, event.sym, keyPressed)
         /\ IF keyPressed
              THEN /\ UNCHANGED debugFlags
                   /\ trace' = Handled(event)
              ELSE /\ mShowDebugText' = (mShowDebugText # (event.sym = "SDLK_d"))
                   /\ mShowBoundingBoxes' = (mShowBoundingBoxes # (event.sym = "SDLK_b"))
                   /\ mShowWorldCollisionData' =
                        (mShowWorldCollisionData # (event.sym = "SDLK_c"))
                   /\ UNCHANGED mShowGrid
                   /\ trace' = Handled(event)
  /\ UNCHANGED <<drawn, mLevelFinished, world, snapshots, pc, depth, dt, iter>>

\* handleEvent without the return on key-down (lines 170-172).
handleEvent_NoKeyDownReturn(event) ==
  /\ pc = "idle"
  /\ IF event.type # "SDL_KEYDOWN" /\ event.type # "SDL_KEYUP"
       THEN /\ UNCHANGED <<mPlayerInputs, debugFlags>>
            /\ trace' = Handled(event)
       ELSE /\ mPlayerInputs' =
                 InputsAfter(mPlayerInputs, event.sym, event.type = "SDL_KEYDOWN")
            /\ mShowDebugText' = (mShowDebugText # (event.sym = "SDLK_d"))
            /\ mShowBoundingBoxes' = (mShowBoundingBoxes # (event.sym = "SDLK_b"))
            /\ mShowWorldCollisionData' =
                 (mShowWorldCollisionData # (event.sym = "SDLK_c"))
            /\ UNCHANGED mShowGrid
            /\ trace' = Handled(event)
  /\ UNCHANGED <<drawn, mLevelFinished, world, snapshots, pc, depth, dt, iter>>

\* The debug keys (lines 168-188), reached on key-up only.
DebugKeys(event) ==
  CASE event.sym = "SDLK_b" ->
         /\ toggleBoundingBoxDisplay
         /\ UNCHANGED mShowDebugText
         /\ trace' = Append(Handled(event), "toggleBoundingBoxDisplay")
    [] event.sym = "SDLK_c" ->
         /\ toggleWorldCollisionDataDisplay
         /\ UNCHANGED mShowDebugText
         /\ trace' = Append(Handled(event), "toggleWorldCollisionDataDisplay")
    [] event.sym = "SDLK_d" ->
         /\ mShowDebugText' = ~mShowDebugText
         /\ UNCHANGED <<mShowBoundingBoxes, mShowWorldCollisionData, mShowGrid>>
         /\ trace' = Handled(event)
    [] OTHER ->
         /\ UNCHANGED debugFlags
         /\ trace' = Handled(event)

handleEvent(event) ==
  /\ pc = "idle"
  /\ IF event.type # "SDL_KEYDOWN" /\ event.type # "SDL_KEYUP"
       THEN /\ UNCHANGED <<mPlayerInputs, debugFlags>>
            /\ trace' = Handled(event)
       ELSE LET keyPressed == event.type = "SDL_KEYDOWN"
            IN  /\ mPlayerInputs' = InputsAfter(mPlayerInputs, event.sym, keyPressed)
                /\ IF keyPressed
                     THEN /\ UNCHANGED debugFlags
                          /\ trace' = Handled(event)
                     ELSE DebugKeys(event)
  /\ UNCHANGED <<drawn, mLevelFinished, world, snapshots, pc, depth, dt, iter>>

(***************************************************************************)
(* What one update of a gameplay system may do to the state the controller *)
(* owns.  The systems advance the simulation by dt: with dt = 0 no time    *)
(* passes and a frame is a render pass only.                               *)
(***************************************************************************)
\* PlayerMovementSystem: Dead is terminal; a player without health may be
\* classified Dead.
MovementOutcomes(state, health, d) ==
  IF d = 0 \/ state = "Dead" THEN {state}
  ELSE {"Standing", "Walking"} \cup (IF health <= 0 THEN {"Dead"} ELSE {})

\* PhysicsSystem: at most one tile along one axis per time step.
PhysicsOutcomes(pos, d) ==
  IF d = 0 THEN {pos}
  ELSE {q \in [x : Xs, y : Ys] :
          \/ q = pos
          \/ q.y = pos.y /\ (q.x = pos.x + 1 \/ q.x = pos.x - 1)
          \/ q.x = pos.x /\ (q.y = pos.y + 1 \/ q.y = pos.y - 1)}

\* player::DamageSystem: health drops, clamped at 0.
DamageOutcomes(health, d) ==
  IF d = 0 THEN {health}
  ELSE {health, IF health > 0 THEN health - 1 ELSE 0}

\* player::DamageSystem: a player whose health is used up may be classified Dead.
DamageStateOutcomes(state, health, d) ==
  IF d # 0 /\ health <= 0 THEN {state, "Dead"} ELSE {state}

\* DamageInflictionSystem: destructible map geometry may be destroyed.
MapOutcomes(map, d) ==
  IF d = 0 THEN {map}
  ELSE {map} \cup
       { [map EXCEPT !.tiles = [u \in DOMAIN map.tiles \ {t} |-> map.tiles[u]]] :
           t \in DOMAIN map.tiles }

\* MapScrollSystem: the camera follows the player.
ScrollOutcomes == [x : 0..MaxScroll, y : {0}]

(***************************************************************************)
(* DebuggingSystem::update (part_000 lines 90-196): the draw calls it      *)
(* hands to the renderer, in order.                                        *)
(***************************************************************************)
\* GameTraits: the viewport in tiles, scaled down.
mapViewPortWidthTiles  == 3
mapViewPortHeightTiles == 2

\* data/unit_conversions.hpp: tiles are 8 pixels wide and high.
tilesToPixels(tiles) == tiles * 8

tileVectorToPixelVector(v) == [x |-> tilesToPixels(v.x), y |-> tilesToPixels(v.y)]

tileExtentsToPixelExtents(size) ==
  [width |-> tilesToPixels(size.width), height |-> tilesToPixels(size.height)]

\* base::makeRect: the rectangle spanned by two corners.
makeRect(topLeft, bottomRight) ==
  [topLeft |-> topLeft,
   size    |-> [width  |-> bottomRight.x - topLeft.x,
                height |-> bottomRight.y - topLeft.y]]

Color(r, g, b, a) == <<r, g, b, a>>

\* Renderer::drawLine and Renderer::drawRectangle, as the renderer receives them.
drawLine(x1, y1, x2, y2, color) ==
  [call |-> "drawLine", from |-> <<x1, y1>>, to |-> <<x2, y2>>, color |-> color]

drawRectangle(rect, color) ==
  [call |-> "drawRectangle", rect |-> rect, color |-> color]

\* The component fragments the entity factory attaches to each kind of entity.
Components(kind) ==
  CASE kind = "Player"     -> {"WorldPosition", "BoundingBox", "PlayerControlled"}
    [] kind = "Projectile" -> {"WorldPosition", "BoundingBox", "Physical"}
    [] kind = "Trigger"    -> {"WorldPosition", "Trigger"}
    [] kind = "Enemy"      -> {"WorldPosition", "BoundingBox", "PlayerDamaging"}
    [] kind = "Platform"   -> {"WorldPosition", "BoundingBox", "SolidBody",
                               "MapGeometryLink"}
    [] kind = "Hazard"     -> {"WorldPosition", "BoundingBox", "PlayerDamaging",
                               "SolidBody"}
    [] OTHER               -> {"WorldPosition"}

has_component(entity, component) == component \in Components(entity.kind)

\* The BoundingBox fragment of an entity, in tiles relative to its position.
BoundingBoxOf(entity) ==
  CASE entity.kind = "Player"   -> PlayerBBox
    [] entity.kind = "Platform" ->
         [topLeft |-> [x |-> 0, y |-> 0], size |-> [width |-> 2, height |-> 1]]
    [] OTHER ->
         [topLeft |-> [x |-> 0, y |-> 0], size |-> [width |-> 1, height |-> 1]]

\* MapGeometryLink::mLinkedGeometrySection: the map region the entity
\* controls, here the two tiles above it.
LinkedGeometrySection(entity) ==
  [topLeft |-> [x |-> entity.pos.x, y |-> entity.pos.y - 2],
   size    |-> [width |-> 2, height |-> 2]]

\* Map::collisionData and Map::attributes of a tile of the grid.  Outside
\* the grid the lookups are undefined; LookedUpTiles below lists the tiles
\* update looks up.
collisionData(map, col, row) ==
  IF <<col, row>> \in DOMAIN map.tiles THEN map.tiles[<<col, row>>].edges ELSE {}

attributes(map, col, row) ==
  IF <<col, row>> \in DOMAIN map.tiles THEN map.tiles[<<col, row>>].attributes ELSE {}

\* colorForEntity with the two tests in the other order.
colorForEntity_SolidFirst(entity) ==
  IF has_component(entity, "SolidBody") THEN Color(255, 255, 0, 255)
  ELSE IF has_component(entity, "PlayerDamaging") THEN Color(255, 0, 0, 255)
  ELSE Color(0, 255, 0, 255)

\* colorForEntity (lines 45-58).
colorForEntity(entity) ==
  LET isPlayerDamaging == has_component(entity, "PlayerDamaging")
      isSolidBody == has_component(entity, "SolidBody")
  IN  IF isPlayerDamaging THEN Color(255, 0, 0, 255)
      ELSE IF isSolidBody THEN Color(255, 255, 0, 255)
      ELSE Color(0, 255, 0, 255)

\* The viewport tiles <<x, y>> in the order of the loops of lines 94-95.
ViewPortTiles ==
  [k \in 1..(mapViewPortWidthTiles * mapViewPortHeightTiles) |->
     <<(k - 1) % mapViewPortWidthTiles, (k - 1) \div mapViewPortWidthTiles>>]

\* No viewport tile is skipped.
SkipsTile_Never(map, col, row) == FALSE

\* The test of lines 98-100.
SkipsTile(map, col, row) == col >= map.width \/ row >= map.height

\* The map tiles <<col, row>> one update looks up while the collision
\* overlay is shown (lines 96-102, 125-127).
LookedUpTiles ==
  LET inView == { <<ViewPortTiles[k][1] + mScrollOffset.x,
                    ViewPortTiles[k][2] + mScrollOffset.y>> :
                    k \in DOMAIN ViewPortTiles }
  IN  { u \in inView : ~SkipsTile(mLevelData.mMap, u[1], u[2]) }

\* Lines 96-142 for the viewport tile <<x, y>>.
TileDraws(x, y) ==
  LET col == x + mScrollOffset.x
      row == y + mScrollOffset.y
      map == mLevelData.mMap
      topLeft == tileVectorToPixelVector([x |-> x, y |-> y])
      bottomRight == tileVectorToPixelVector([x |-> x + 1, y |-> y + 1])
      left == topLeft.x
      top == topLeft.y
      right == bottomRight.x
      bottom == bottomRight.y
      visualizationInfos ==
        << [mEdge |-> "top",    mCoordinates |-> <<left, top, right, top>>],
           [mEdge |-> "right",  mCoordinates |-> <<right, top, right, bottom>>],
           [mEdge |-> "bottom", mCoordinates |-> <<left, bottom, right, bottom>>],
           [mEdge |-> "left",   mCoordinates |-> <<left, top, left, bottom>>] >>
      solid == SelectSeq(visualizationInfos,
                         LAMBDA info : info.mEdge \in collisionData(map, col, row))
      tileBox == makeRect(topLeft, bottomRight)
      overlays ==
        << [attribute |-> "climbable", color |-> Color(255, 100, 255, 220)],
           [attribute |-> "ladder",    color |-> Color(0, 100, 255, 220)],
           [attribute |-> "flammable", color |-> Color(255, 127, 0, 220)] >>
      shown == SelectSeq(overlays,
                         LAMBDA o : o.attribute \in attributes(map, col, row))
  IN  IF SkipsTile(map, col, row) THEN <<>>
      ELSE [i \in 1..Len(solid) |->
              drawLine(solid[i].mCoordinates[1], solid[i].mCoordinates[2],
                       solid[i].mCoordinates[3], solid[i].mCoordinates[4],
                       Color(255, 255, 0, 255))]
           \o [i \in 1..Len(shown) |-> drawRectangle(tileBox, shown[i].color)]

RECURSIVE CollisionDrawsFrom(_)
CollisionDrawsFrom(k) ==
  IF k > Len(ViewPortTiles) THEN <<>>
  ELSE TileDraws(ViewPortTiles[k][1], ViewPortTiles[k][2]) \o CollisionDrawsFrom(k + 1)

\* The collision overlay (lines 91-145).
CollisionDraws == CollisionDrawsFrom(1)

\* The bounding-box display (lines 147-177): a box per entity with
\* WorldPosition and BoundingBox, then a box per MapGeometryLink.
BoundingBoxDraws ==
  LET worldToScreenPx == tileVectorToPixelVector(mScrollOffset)
      boxed == SelectSeq(entities,
                 LAMBDA e : has_component(e, "WorldPosition")
                            /\ has_component(e, "BoundingBox"))
      linked == SelectSeq(entities,
                  LAMBDA e : has_component(e, "WorldPosition")
                             /\ has_component(e, "MapGeometryLink"))
      screenBox(topLeft, size) ==
        [topLeft |-> [x |-> tilesToPixels(topLeft.x) - worldToScreenPx.x,
                      y |-> tilesToPixels(topLeft.y) - worldToScreenPx.y],
         size    |-> tileExtentsToPixelExtents(size)]
      worldSpaceBox(e) == toWorldSpace(BoundingBoxOf(e), e.pos)
  IN  [i \in 1..Len(boxed) |->
         drawRectangle(screenBox([x |-> worldSpaceBox(boxed[i]).left,
                                  y |-> worldSpaceBox(boxed[i]).top],
                                 BoundingBoxOf(boxed[i]).size),
                       colorForEntity(boxed[i]))]
      \o [i \in 1..Len(linked) |->
            drawRectangle(screenBox(LinkedGeometrySection(linked[i]).topLeft,
                                    LinkedGeometrySection(linked[i]).size),
                          Color(0, 255, 255, 190))]

\* The grid display (lines 179-195).
GridDraws ==
  LET drawColor == Color(255, 255, 255, 190)
      maxX == tilesToPixels(mapViewPortWidthTiles)
      maxY == tilesToPixels(mapViewPortHeightTiles)
  IN  [i \in 1..mapViewPortHeightTiles |->
         drawLine(0, tilesToPixels(i - 1), maxX, tilesToPixels(i - 1), drawColor)]
      \o [i \in 1..mapViewPortWidthTiles |->
            drawLine(tilesToPixels(i - 1), 0, tilesToPixels(i - 1), maxY, drawColor)]

\* update with the three displays chained by else-if.
DebuggingSystemUpdate_ElseIf(showWorldCollisionData, showBoundingBoxes, showGrid) ==
  IF showWorldCollisionData THEN CollisionDraws
  ELSE IF showBoundingBoxes THEN BoundingBoxDraws
  ELSE IF showGrid THEN GridDraws
  ELSE <<>>

\* DebuggingSystem::update (lines 90-196) under the given display flags.
DebuggingSystemUpdate(showWorldCollisionData, showBoundingBoxes, showGrid) ==
  (IF showWorldCollisionData THEN CollisionDraws ELSE <<>>)
  \o (IF showBoundingBoxes THEN BoundingBoxDraws ELSE <<>>)
  \o (IF showGrid THEN GridDraws ELSE <<>>)

(***************************************************************************)
(* updateAndRender (lines 191-252).                                        *)
(***************************************************************************)
\* updateAndRender without the early return of lines 192-194.
updateAndRender_NoEarlyReturn(d) ==
  /\ pc = "idle"
  /\ trace' = <<"updateAndRender">>
  /\ pc' = "setInputAttack"
  /\ dt' = d
  /\ UNCHANGED <<drawn, controllerState, depth, iter>>

\* Lines 191-194, as entered from the owner of the mode.
updateAndRender(d) ==
  /\ pc = "idle"
  /\ trace' = <<"updateAndRender">>
  /\ IF mLevelFinished
       THEN pc' = "idle" /\ dt' = dt
       ELSE pc' = "setInputAttack" /\ dt' = d
  /\ UNCHANGED <<drawn, controllerState, depth, iter>>

\* Lines 199-200.
SetInputStateAttack ==
  /\ Goto("setInputAttack", "setInputElevator", "AttackSystem.setInputState")
  /\ UNCHANGED <<drawn, controllerState, depth, dt, iter>>

\* Lines 201-202.
SetInputStateElevator ==
  /\ Goto("setInputElevator", "updElevator", "ElevatorSystem.setInputState")
  /\ UNCHANGED <<drawn, controllerState, depth, dt, iter>>

\* Line 208.
UpdateElevatorSystem ==
  /\ Goto("updElevator", "updMovement", "update:ElevatorSystem")
  /\ UNCHANGED <<drawn, controllerState, depth, dt, iter>>

\* Line 210.
UpdatePlayerMovementSystem ==
  /\ Goto("updMovement", "updAttack", "update:PlayerMovementSystem")
  /\ \E st \in MovementOutcomes(SystemsPlayer.mState, mPlayerModel.mHealth, dt) :
       entities' = [entities EXCEPT ![systemsPlayerEntity].mState = st]
  /\ UNCHANGED <<drawn, mPlayerInputs, debugFlags, mLevelFinished, mPlayerModel, mLevelData,
                 mPlayerEntity, mScrollOffset, snapshots, depth, dt, iter>>

\* Line 211; the system spawns projectiles through the callback of lines 310-316.
UpdateAttackSystem ==
  /\ Goto("updAttack", "updInteraction", "update:AttackSystem")
  /\ \/ UNCHANGED entities
     \/ /\ dt # 0
        /\ SystemsPlayer.mState # "Dead"
        /\ NumProjectiles < MaxProjectiles
        /\ entities' = Append(entities, createProjectile(ProjectileSpawn))
  /\ UNCHANGED <<drawn, mPlayerInputs, debugFlags, mLevelFinished, mPlayerModel, mLevelData,
                 mPlayerEntity, mScrollOffset, snapshots, depth, dt, iter>>

\* Line 212.
UpdatePlayerInteractionSystem ==
  /\ Goto("updInteraction", "updSecurityCamera", "update:PlayerInteractionSystem")
  /\ UNCHANGED <<drawn, controllerState, depth, dt, iter>>

\* Line 217.
UpdateSecurityCameraSystem ==
  /\ Goto("updSecurityCamera", "updPhysics", "update:SecurityCameraSystem")
  /\ UNCHANGED <<drawn, controllerState, depth, dt, iter>>

\* Line 222 followed by line 225: the update of line 224 is left out.
UpdatePhysicsSystem_SkipPlayerDamage ==
  /\ Goto("updPhysics", "updDamageInfliction", "update:PhysicsSystem")
  /\ \E q \in PhysicsOutcomes(Player.pos, dt) :
       entities' = [entities EXCEPT ![mPlayerEntity].pos = q]
  /\ UNCHANGED <<drawn, mPlayerInputs, debugFlags, mLevelFinished, mPlayerModel, mLevelData,
                 mPlayerEntity, mScrollOffset, snapshots, depth, dt, iter>>

\* Line 222.
UpdatePhysicsSystem ==
  /\ Goto("updPhysics", "updPlayerDamage", "update:PhysicsSystem")
  /\ \E q \in PhysicsOutcomes(Player.pos, dt) :
       entities' = [entities EXCEPT ![mPlayerEntity].pos = q]
  /\ UNCHANGED <<drawn, mPlayerInputs, debugFlags, mLevelFinished, mPlayerModel, mLevelData,
                 mPlayerEntity, mScrollOffset, snapshots, depth, dt, iter>>

\* Line 224.
UpdatePlayerDamageSystem ==
  /\ Goto("updPlayerDamage", "updDamageInfliction", "update:DamageSystem")
  /\ \E h \in DamageOutcomes(mPlayerModel.mHealth, dt) :
       /\ mPlayerModel' = [mPlayerModel EXCEPT !.mHealth = h]
       /\ \E st \in DamageStateOutcomes(SystemsPlayer.mState, h, dt) :
            entities' = [entities EXCEPT ![systemsPlayerEntity].mState = st]
  /\ UNCHANGED <<drawn, mPlayerInputs, debugFlags, mLevelFinished, mLevelData,
                 mPlayerEntity, mScrollOffset, snapshots, depth, dt, iter>>

\* Line 225.
UpdateDamageInflictionSystem ==
  /\ Goto("updDamageInfliction", "updAnimation", "update:DamageInflictionSystem")
  /\ \E m \in MapOutcomes(mLevelData.mMap, dt) :
       mLevelData' = [mLevelData EXCEPT !.mMap = m]
  /\ UNCHANGED <<drawn, mPlayerInputs, debugFlags, mLevelFinished, mPlayerModel, entities,
                 mPlayerEntity, mScrollOffset, snapshots, depth, dt, iter>>

\* Line 226.
UpdateAnimationSystem ==
  /\ Goto("updAnimation", "updMapScroll", "update:AnimationSystem")
  /\ UNCHANGED <<drawn, controllerState, depth, dt, iter>>

\* Line 227 followed by line 236: the render target is never bound.
UpdateMapScrollSystem_SkipBind ==
  /\ Goto("updMapScroll", "updRendering", "update:MapScrollSystem")
  /\ mScrollOffset' \in ScrollOutcomes
  /\ UNCHANGED <<drawn, mPlayerInputs, debugFlags, mLevelFinished, mPlayerModel, mLevelData,
                 entities, mPlayerEntity, snapshots, depth, dt, iter>>

\* Line 227.
UpdateMapScrollSystem ==
  /\ Goto("updMapScroll", "bind", "update:MapScrollSystem")
  /\ mScrollOffset' \in ScrollOutcomes
  /\ UNCHANGED <<drawn, mPlayerInputs, debugFlags, mLevelFinished, mPlayerModel, mLevelData,
                 entities, mPlayerEntity, snapshots, depth, dt, iter>>

\* Lines 233-234: the Binder binds the off-screen render target.
BindRenderTarget ==
  /\ Goto("bind", "updRendering", "bindRenderTarget")
  /\ UNCHANGED <<drawn, controllerState, depth, dt, iter>>

\* Line 236.
UpdateRenderingSystem ==
  /\ Goto("updRendering", "updDebugging", "update:RenderingSystem")
  /\ UNCHANGED <<drawn, controllerState, depth, dt, iter>>

\* Line 237.
UpdateDebuggingSystem ==
  /\ Goto("updDebugging", "hud", "update:DebuggingSystem")
  /\ drawn' = DebuggingSystemUpdate(mShowWorldCollisionData, mShowBoundingBoxes,
                                    mShowGrid)
  /\ UNCHANGED <<controllerState, depth, dt, iter>>

\* Line 238.
HudUpdateAndRender ==
  /\ Goto("hud", "unbind", "HudRenderer.updateAndRender")
  /\ UNCHANGED <<drawn, controllerState, depth, dt, iter>>

\* Line 239: the Binder goes out of scope.
UnbindRenderTarget ==
  /\ Goto("unbind", "composite", "unbindRenderTarget")
  /\ UNCHANGED <<drawn, controllerState, depth, dt, iter>>

\* Lines 241-244.
CompositeRenderTarget ==
  /\ Goto("composite", "debugText", "renderTarget.render")
  /\ UNCHANGED <<drawn, controllerState, depth, dt, iter>>

\* Lines 246-248.
ShowDebugText ==
  /\ pc = "debugText"
  /\ pc' = "checkDeath"
  /\ trace' = IF mShowDebugText THEN Append(trace, "showDebugText") ELSE trace
  /\ UNCHANGED <<drawn, controllerState, depth, dt, iter>>

(***************************************************************************)
(* checkForPlayerDeath (lines 389-399) and restartLevel (lines 402-416).   *)
(***************************************************************************)
\* Lines 393-395 testing the health alone.
playerDead_HealthOnly ==
  mPlayerModel.mHealth <= 0

\* Lines 390-395.
playerDead ==
  Player.mState = "Dead" /\ mPlayerModel.mHealth <= 0

\* Line 250 with lines 389-399.
CheckForPlayerDeath ==
  /\ pc = "checkDeath"
  /\ trace' = Append(trace, "checkForPlayerDeath")
  /\ pc' = IF playerDead THEN "fadeOut" ELSE "checkExit"
  /\ UNCHANGED <<drawn, controllerState, depth, dt, iter>>

\* Line 403 followed by line 407: the map reset of line 405 is left out.
RestartFadeOut_SkipMapReset ==
  /\ Goto("fadeOut", "entitiesReset", "fadeOutScreen")
  /\ UNCHANGED <<drawn, controllerState, depth, dt, iter>>

\* Line 403.
RestartFadeOut ==
  /\ Goto("fadeOut", "mapReset", "fadeOutScreen")
  /\ UNCHANGED <<drawn, controllerState, depth, dt, iter>>

\* Line 405.
RestartResetMap ==
  /\ Goto("mapReset", "entitiesReset", "mMap=mMapAtLevelStart")
  /\ mLevelData' = [mLevelData EXCEPT !.mMap = mMapAtLevelStart]
  /\ UNCHANGED <<drawn, mPlayerInputs, debugFlags, mLevelFinished, mPlayerModel, entities,
                 mPlayerEntity, mScrollOffset, snapshots, depth, dt, iter>>

\* Line 407 leaving the entities in the store.
RestartResetEntities_KeepEntities ==
  /\ Goto("entitiesReset", "createEntities", "entities.reset")
  /\ UNCHANGED <<drawn, controllerState, depth, dt, iter>>

\* Line 407 destroying the entities while their slots stay taken, so that
\* the factory's entities get identifiers never handed out before.
RestartResetEntities_KeepSlots ==
  /\ Goto("entitiesReset", "createEntities", "entities.reset")
  /\ entities' = [i \in DOMAIN entities |-> [entities[i] EXCEPT !.kind = "Destroyed"]]
  /\ UNCHANGED <<drawn, mPlayerInputs, debugFlags, mLevelFinished, mPlayerModel, mLevelData,
                 mPlayerEntity, mScrollOffset, snapshots, depth, dt, iter>>

\* Line 407.
RestartResetEntities ==
  /\ Goto("entitiesReset", "createEntities", "entities.reset")
  /\ entities' = <<>>
  /\ UNCHANGED <<drawn, mPlayerInputs, debugFlags, mLevelFinished, mPlayerModel, mLevelData,
                 mPlayerEntity, mScrollOffset, snapshots, depth, dt, iter>>

\* Lines 408-409: the factory adds the level's entities to the store.
RestartCreateEntities ==
  /\ Goto("createEntities", "restoreModel", "createEntitiesForLevel")
  /\ LET created == createEntitiesForLevel(mLevelData.mInitialActors)
     IN  /\ entities' = entities \o created.ents
         /\ mPlayerEntity' = Len(entities) + created.player
  /\ UNCHANGED <<drawn, mPlayerInputs, debugFlags, mLevelFinished, mPlayerModel, mLevelData,
                 mScrollOffset, snapshots, depth, dt, iter>>

\* Line 411 leaving the player model as it is.
RestartRestorePlayerModel_KeepModel ==
  /\ Goto("restoreModel", "nestedFrame", "mPlayerModel=mPlayerModelAtLevelStart")
  /\ UNCHANGED <<drawn, controllerState, depth, dt, iter>>

\* Line 411.
RestartRestorePlayerModel ==
  /\ Goto("restoreModel", "nestedFrame", "mPlayerModel=mPlayerModelAtLevelStart")
  /\ mPlayerModel' = mPlayerModelAtLevelStart
  /\ UNCHANGED <<drawn, mPlayerInputs, debugFlags, mLevelFinished, mLevelData, entities,
                 mPlayerEntity, mScrollOffset, snapshots, depth, dt, iter>>

\* Line 413 calling updateAndRender with a time step instead of 0.
RestartUpdateAndRender_TimePasses ==
  /\ pc = "nestedFrame"
  /\ trace' = Append(trace, "updateAndRender(0)")
  /\ IF mLevelFinished
       THEN pc' = "fadeIn" /\ depth' = depth /\ dt' = dt
       ELSE pc' = "setInputAttack" /\ depth' = depth + 1 /\ dt' = 1
  /\ UNCHANGED <<drawn, controllerState, iter>>

\* Line 413: updateAndRender(0), entered at lines 191-194.
RestartUpdateAndRender ==
  /\ pc = "nestedFrame"
  /\ trace' = Append(trace, "updateAndRender(0)")
  /\ IF mLevelFinished
       THEN pc' = "fadeIn" /\ depth' = depth /\ dt' = dt
       ELSE pc' = "setInputAttack" /\ depth' = depth + 1 /\ dt' = 0
  /\ UNCHANGED <<drawn, controllerState, iter>>

\* Line 415 with updateAndRender returning right after the restart: the exit
\* check of line 251 is not reached.
RestartFadeIn_SkipExitCheck ==
  /\ pc = "fadeIn"
  /\ trace' = Append(trace, "fadeInScreen")
  /\ ReturnFromUpdateAndRender
  /\ UNCHANGED <<drawn, controllerState>>

\* Line 415; restartLevel and checkForPlayerDeath return to line 251.
RestartFadeIn ==
  /\ Goto("fadeIn", "checkExit", "fadeInScreen")
  /\ UNCHANGED <<drawn, controllerState, depth, dt, iter>>

(***************************************************************************)
(* checkForLevelExitReached (lines 356-386).                               *)
(***************************************************************************)
\* Lines 370-379 without the left() comparison of line 378.
exitReached_NoLeftTest(triggerPosition) ==
  LET playerBBox == toWorldSpace(PlayerBBox, Player.pos)
  IN  /\ playerBBox.bottom <= triggerPosition.y
      /\ triggerPosition.x <= playerBBox.right + 1

\* Lines 370-379 with line 379 comparing against right() instead of right() + 1.
exitReached_NoPlusOne(triggerPosition) ==
  LET playerBBox == toWorldSpace(PlayerBBox, Player.pos)
  IN  /\ playerBBox.bottom <= triggerPosition.y
      /\ triggerPosition.x >= playerBBox.left
      /\ triggerPosition.x <= playerBBox.right

\* Lines 370-379 and the right-hand side of line 384.
exitReached(triggerPosition) ==
  LET playerPosition == Player.pos
      playerBBox == toWorldSpace(PlayerBBox, playerPosition)
      playerAboveOrAtTriggerHeight == playerBBox.bottom <= triggerPosition.y
      touchingTriggerOnXAxis ==
        /\ triggerPosition.x >= playerBBox.left
        /\ triggerPosition.x <= playerBBox.right + 1
  IN  playerAboveOrAtTriggerHeight /\ touchingTriggerOnXAxis

\* The callback without the mLevelFinished test of line 366.
exitCallback_NoLatch(trigger, triggerPosition) ==
  IF trigger # "LevelExit"
    THEN mLevelFinished
    ELSE exitReached(triggerPosition)

\* The callback of lines 361-385: the value it leaves in mLevelFinished.
exitCallback(trigger, triggerPosition) ==
  IF trigger # "LevelExit" \/ mLevelFinished
    THEN mLevelFinished
    ELSE exitReached(triggerPosition)

\* Line 251 with line 360: the query starts.
CheckForLevelExitReached ==
  /\ Goto("checkExit", "exitLoop", "checkForLevelExitReached")
  /\ iter' = NextTrigger(0)
  /\ UNCHANGED <<drawn, controllerState, depth, dt>>

\* The query abandoned after the first LevelExit trigger it yields.
ExitCallback_FirstExitDecides ==
  /\ pc = "exitLoop"
  /\ iter <= Len(entities)
  /\ mLevelFinished' = exitCallback(entities[iter].trigger, entities[iter].pos)
  /\ iter' = IF entities[iter].trigger = "LevelExit"
               THEN Len(entities) + 1
               ELSE NextTrigger(iter)
  /\ UNCHANGED <<drawn, mPlayerInputs, debugFlags, world, snapshots, pc, depth, dt, trace>>

\* One invocation of the callback, on the entity the query yields next.
ExitCallback ==
  /\ pc = "exitLoop"
  /\ iter <= Len(entities)
  /\ mLevelFinished' = exitCallback(entities[iter].trigger, entities[iter].pos)
  /\ iter' = NextTrigger(iter)
  /\ UNCHANGED <<drawn, mPlayerInputs, debugFlags, world, snapshots, pc, depth, dt, trace>>

\* The query is exhausted: checkForLevelExitReached and updateAndRender return.
ExitCheckDone ==
  /\ pc = "exitLoop"
  /\ iter > Len(entities)
  /\ ReturnFromUpdateAndRender
  /\ trace' = Append(trace, "return")
  /\ UNCHANGED <<drawn, controllerState>>

(***************************************************************************)
(* Specification of the frame loop: the owner of the mode alternates       *)
(* handleEvent and updateAndRender; a call runs to its end before the next.*)
(***************************************************************************)
Next ==
  \/ \E event \in FrameEvents : handleEvent(event)
  \/ \E d \in Dts : updateAndRender(d)
  \/ SetInputStateAttack
  \/ SetInputStateElevator
  \/ UpdateElevatorSystem
  \/ UpdatePlayerMovementSystem
  \/ UpdateAttackSystem
  \/ UpdatePlayerInteractionSystem
  \/ UpdateSecurityCameraSystem
  \/ UpdatePhysicsSystem
  \/ UpdatePlayerDamageSystem
  \/ UpdateDamageInflictionSystem
  \/ UpdateAnimationSystem
  \/ UpdateMapScrollSystem
  \/ BindRenderTarget
  \/ UpdateRenderingSystem
  \/ UpdateDebuggingSystem
  \/ HudUpdateAndRender
  \/ UnbindRenderTarget
  \/ CompositeRenderTarget
  \/ ShowDebugText
  \/ CheckForPlayerDeath
  \/ RestartFadeOut
  \/ RestartResetMap
  \/ RestartResetEntities
  \/ RestartCreateEntities
  \/ RestartRestorePlayerModel
  \/ RestartUpdateAndRender
  \/ RestartFadeIn
  \/ CheckForLevelExitReached
  \/ ExitCallback
  \/ ExitCheckDone

Spec == Init /\ [][Next]_vars

(***************************************************************************)
(* The frame loop with the code's scheduling stated: the controller is     *)
(* single threaded and no statement blocks, so a call that has been        *)
(* entered keeps executing its statements.  When the owner makes the next  *)
(* call is left open.                                                      *)
(***************************************************************************)
\* The statements inside a call of updateAndRender.
FrameStep ==
  \/ SetInputStateAttack
  \/ SetInputStateElevator
  \/ UpdateElevatorSystem
  \/ UpdatePlayerMovementSystem
  \/ UpdateAttackSystem
  \/ UpdatePlayerInteractionSystem
  \/ UpdateSecurityCameraSystem
  \/ UpdatePhysicsSystem
  \/ UpdatePlayerDamageSystem
  \/ UpdateDamageInflictionSystem
  \/ UpdateAnimationSystem
  \/ UpdateMapScrollSystem
  \/ BindRenderTarget
  \/ UpdateRenderingSystem
  \/ UpdateDebuggingSystem
  \/ HudUpdateAndRender
  \/ UnbindRenderTarget
  \/ CompositeRenderTarget
  \/ ShowDebugText
  \/ CheckForPlayerDeath
  \/ RestartFadeOut
  \/ RestartResetMap
  \/ RestartResetEntities
  \/ RestartCreateEntities
  \/ RestartRestorePlayerModel
  \/ RestartUpdateAndRender
  \/ RestartFadeIn
  \/ CheckForLevelExitReached
  \/ ExitCallback
  \/ ExitCheckDone

\* Calls of updateAndRender only: events change nothing a restart reads.
NextFrames ==
  \/ \E d \in Dts : updateAndRender(d)
  \/ FrameStep

SpecFair == Init /\ [][NextFrames]_vars /\ WF_vars(FrameStep)

(***************************************************************************)
(* The controller under input alone: any event of the event set, no frame. *)
(***************************************************************************)
\* handleEvent reads nothing of the level: one level, without override.
InitInput ==
  /\ Init
  /\ mLevelData.mInitialActors = SingleExitLevel
  /\ Player.pos = SingleExitLevel[1].pos

NextInput == \E event \in Events : handleEvent(event)

SpecInput == InitInput /\ [][NextInput]_vars

(***************************************************************************)
(* The debugging system driven call by call: its three toggles and update, *)
(* with the map-scroll system moving the camera in between.  Here trace    *)
(* keeps every call made since construction, up to MaxCalls calls.         *)
(***************************************************************************)
MaxCalls == 4

\* A level for the overlay: entities of every colour class, a trigger
\* without bounding box, and a map narrower and lower than the viewport
\* can scroll over.
DebugLevel ==
  << Actor("Hazard", "None", 1, 0), Actor("Player", "None", 1, 1),
     Actor("Trigger", "LevelExit", 2, 0), Actor("Platform", "None", 2, 1),
     Actor("Enemy", "None", 0, 1) >>

DebugMap ==
  [width  |-> 3,
   height |-> 1,
   tiles  |-> (<<0, 0>> :> Tile({"top", "left"}, {"climbable"}))
              @@ (<<1, 0>> :> Tile({}, {"ladder", "flammable"}))
              @@ (<<2, 0>> :> Tile(AllEdges, {}))]

InitDebug ==
  \E health \in 1..MaxHealth :
    LET created == createEntitiesForLevel(DebugLevel)
    IN  /\ mPlayerInputs = NoInputs
        /\ mShowDebugText = FALSE
        /\ mShowBoundingBoxes = FALSE
        /\ mShowWorldCollisionData = FALSE
        /\ mShowGrid = FALSE
        /\ mLevelFinished = FALSE
        /\ mPlayerModel = [mHealth |-> health]
        /\ mPlayerModelAtLevelStart = [mHealth |-> health]
        /\ mLevelData = [mMap |-> DebugMap, mInitialActors |-> DebugLevel]
        /\ mMapAtLevelStart = DebugMap
        /\ mPlayerEntity = created.player
        /\ systemsPlayerEntity = created.player
        /\ entities = created.ents
        /\ mScrollOffset = [x |-> 0, y |-> 0]
        /\ pc = "idle"
        /\ depth = 0
        /\ dt = 0
        /\ iter = 0
        /\ trace = <<>>
        /\ drawn = <<>>

\* One call on the debugging system or the map-scroll system, logged.
DebugCall(call) ==
  /\ pc = "idle"
  /\ Len(trace) < MaxCalls
  /\ trace' = Append(trace, call)
  /\ UNCHANGED <<mPlayerInputs, mShowDebugText, mLevelFinished, mPlayerModel,
                 mLevelData, entities, mPlayerEntity, snapshots, pc, depth, dt, iter>>

CallToggleBoundingBoxDisplay ==
  /\ DebugCall("toggleBoundingBoxDisplay")
  /\ toggleBoundingBoxDisplay
  /\ UNCHANGED <<mScrollOffset, drawn>>

CallToggleWorldCollisionDataDisplay ==
  /\ DebugCall("toggleWorldCollisionDataDisplay")
  /\ toggleWorldCollisionDataDisplay
  /\ UNCHANGED <<mScrollOffset, drawn>>

CallToggleGridDisplay ==
  /\ DebugCall("toggleGridDisplay")
  /\ toggleGridDisplay
  /\ UNCHANGED <<mScrollOffset, drawn>>

CallMapScrollUpdate ==
  /\ DebugCall("update:MapScrollSystem")
  /\ mScrollOffset' \in ScrollOutcomes
  /\ UNCHANGED <<mShowBoundingBoxes, mShowWorldCollisionData, mShowGrid, drawn>>

CallDebuggingSystemUpdate ==
  /\ DebugCall("update:DebuggingSystem")
  /\ drawn' = DebuggingSystemUpdate(mShowWorldCollisionData, mShowBoundingBoxes,
                                    mShowGrid)
  /\ UNCHANGED <<mShowBoundingBoxes, mShowWorldCollisionData, mShowGrid,
                 mScrollOffset>>

NextDebug ==
  \/ CallToggleBoundingBoxDisplay
  \/ CallToggleWorldCollisionDataDisplay
  \/ CallToggleGridDisplay
  \/ CallMapScrollUpdate
  \/ CallDebuggingSystemUpdate

SpecDebug == InitDebug /\ [][NextDebug]_vars

(***************************************************************************)
(* Properties.                                                             *)
(***************************************************************************)
Count(seq, e) == Cardinality({i \in 1..Len(seq) : seq[i] = e})

\* The world-space bounding box of the player, as the exit check reads it.
PlayerBox == toWorldSpace(PlayerBBox, Player.pos)

\* Non-no-op updateAndRender activations the running call has started.
FramesStarted == Count(trace, "AttackSystem.setInputState")

\* A restart happened during the call that trace records.
Restarted == Count(trace, "fadeOutScreen") > 0

\* C1: once mLevelFinished is true, a call of updateAndRender(dt), for any
\* dt, returns at once: it makes no call at all (no system update, no
\* rendering, no debug text, no exit or death check, no restart) and leaves
\* every piece of controller state unchanged.
C1_NoOpOnceFinished ==
  [][ (pc = "idle" /\ mLevelFinished /\ trace'[1] = "updateAndRender")
        => /\ pc' = "idle"
           /\ trace' = <<"updateAndRender">>
           /\ UNCHANGED <<drawn, controllerState, depth, iter>> ]_vars

\* A finished level on which updateAndRender has been called and has returned.
C1_Witness ==
  mLevelFinished /\ pc = "idle" /\ trace = <<"updateAndRender">>

\* The order in which lines 208-227 update the gameplay systems.
SystemOrder ==
  << "update:ElevatorSystem", "update:PlayerMovementSystem", "update:AttackSystem",
     "update:PlayerInteractionSystem", "update:SecurityCameraSystem",
     "update:PhysicsSystem", "update:DamageSystem", "update:DamageInflictionSystem",
     "update:AnimationSystem", "update:MapScrollSystem" >>

IsGameplayUpdate(e) == \E k \in 1..Len(SystemOrder) : SystemOrder[k] = e

GameplayUpdates == SelectSeq(trace, IsGameplayUpdate)

\* Gameplay updates the running activation still has to make.
PendingUpdates ==
  CASE pc \in {"setInputElevator", "updElevator"} -> 10
    [] pc = "updMovement"         -> 9
    [] pc = "updAttack"           -> 8
    [] pc = "updInteraction"      -> 7
    [] pc = "updSecurityCamera"   -> 6
    [] pc = "updPhysics"          -> 5
    [] pc = "updPlayerDamage"     -> 4
    [] pc = "updDamageInfliction" -> 3
    [] pc = "updAnimation"        -> 2
    [] pc = "updMapScroll"        -> 1
    [] OTHER -> 0

\* C2: in every updateAndRender activation that is not a no-op, the dt = 0
\* activation of a restart included, the gameplay systems are updated once
\* each in the order elevator, player movement, attack, player interaction,
\* security camera, physics, player damage, damage infliction, player
\* animation, map scroll: the updates logged so far repeat that order, and an
\* activation that has left the update phase has made all ten.
C2_SystemOrder ==
  LET updates == GameplayUpdates
  IN  /\ \A i \in 1..Len(updates) : updates[i] = SystemOrder[((i - 1) % 10) + 1]
      /\ Len(updates) + PendingUpdates = 10 * FramesStarted

\* A call that restarted the level has returned: two activations, twenty updates.
C2_Witness ==
  pc = "idle" /\ Restarted /\ Len(GameplayUpdates) = 20

\* Levels with exactly one entity carrying a LevelExit trigger.
SingleExit ==
  Cardinality({i \in 1..Len(entities) : entities[i].trigger = "LevelExit"}) = 1

\* C3: when the exit check visits a trigger on a level that is not finished,
\* a trigger of another type leaves mLevelFinished false, and the LevelExit
\* trigger of a level with a single one sets mLevelFinished to exactly
\* (player bottom <= trigger y and player left <= trigger x <= player right + 1).
C3_ExitDetection ==
  [][ (pc = "exitLoop" /\ iter <= Len(entities) /\ ~mLevelFinished)
        => LET t == entities[iter]
           IN  /\ t.trigger # "LevelExit" => mLevelFinished' = FALSE
               /\ (t.trigger = "LevelExit" /\ SingleExit)
                    => mLevelFinished' =
                         (/\ PlayerBox.bottom <= t.pos.y
                          /\ PlayerBox.left <= t.pos.x
                          /\ t.pos.x <= PlayerBox.right + 1) ]_vars

\* The exit check has run on the single-exit level with the trigger at
\* (10, 5) and the player box at left 9, right 11, bottom 5.
C3_Witness ==
  /\ pc = "exitLoop" /\ iter > Len(entities)
  /\ mLevelData.mInitialActors = SingleExitLevel
  /\ PlayerBox.left = 9 /\ PlayerBox.right = 11 /\ PlayerBox.bottom = 5
  /\ mLevelFinished

\* C4: the level-finished latch is sticky: no step of handleEvent or
\* updateAndRender, a later trigger of the same exit-check pass included,
\* takes mLevelFinished from true back to false.
C4_StickyLatch ==
  [][ mLevelFinished => mLevelFinished' ]_vars

\* An exit-check pass has ended with the latch set although the LevelExit
\* trigger it visited last does not match the player.
C4_Witness ==
  /\ pc = "exitLoop" /\ iter > Len(entities)
  /\ mLevelFinished
  /\ \E j \in 1..Len(entities) :
       /\ entities[j].trigger = "LevelExit"
       /\ \A k \in (j + 1)..Len(entities) : entities[k].trigger # "LevelExit"
       /\ ~(/\ PlayerBox.bottom <= entities[j].pos.y
            /\ PlayerBox.left <= entities[j].pos.x
            /\ entities[j].pos.x <= PlayerBox.right + 1)

\* The exit check is about to visit the LevelExit trigger at (10, 5) of the
\* single-exit level, which is not finished, with the player's bottom at 5.
AtExitTrigger10x5 ==
  /\ pc = "exitLoop" /\ iter <= Len(entities)
  /\ ~mLevelFinished
  /\ SingleExit
  /\ entities[iter].trigger = "LevelExit"
  /\ entities[iter].pos = [x |-> 10, y |-> 5]
  /\ PlayerBox.bottom = 5

\* C5 as stated: with the LevelExit trigger at (10, 5), the player's bottom at
\* 5 and the level not finished, a player with right < 10 or left > 11 makes
\* the exit check leave mLevelFinished false.
C5_Original ==
  [][ (AtExitTrigger10x5 /\ (PlayerBox.right < 10 \/ PlayerBox.left > 11))
        => mLevelFinished' = FALSE ]_vars

\* C5 as amended: with the LevelExit trigger at (10, 5), the player's bottom at
\* 5 and the level not finished, a player with right < 9 or left > 11 makes
\* the exit check leave mLevelFinished false (right = 9 still touches the
\* trigger, because line 379 accepts trigger x = right + 1).
C5_Amended ==
  [][ (AtExitTrigger10x5 /\ (PlayerBox.right < 9 \/ PlayerBox.left > 11))
        => mLevelFinished' = FALSE ]_vars

\* The exit check has run on the single-exit level with the player at bottom 5
\* and right < 9, and the level is not finished.
C5_Witness ==
  /\ pc = "exitLoop" /\ iter > Len(entities)
  /\ mLevelData.mInitialActors = SingleExitLevel
  /\ PlayerBox.bottom = 5 /\ PlayerBox.right < 9
  /\ ~mLevelFinished

\* The checks the call has logged after the composite of a frame.
IsCheck(e) ==
  e \in {"checkForPlayerDeath", "checkForLevelExitReached", "fadeOutScreen",
         "fadeInScreen", "renderTarget.render", "showDebugText"}

Checks == SelectSeq(trace, IsCheck)

\* C6 as stated: at the end of every non-no-op updateAndRender the level-exit
\* condition is evaluated first and the player-death condition second: the
\* check that follows the composite (and the debug text) is the exit check.
C6_Original ==
  LET c == Checks
  IN  \A i \in 2..Len(c) :
        c[i - 1] \in {"renderTarget.render", "showDebugText"}
          => c[i] \in {"showDebugText", "checkForLevelExitReached"}

\* C6 as amended: at the end of every non-no-op updateAndRender the
\* player-death condition is evaluated first and the level-exit condition
\* second; both checks run in every such frame and neither keeps the other
\* from running: the death check follows the composite (and the debug text),
\* the exit check follows the death check or the restart it made, and a call
\* that has returned has made one death check and one exit check per frame.
C6_DeathThenExit ==
  LET c == Checks
  IN  /\ \A i \in 2..Len(c) :
           /\ c[i - 1] = "renderTarget.render"
                => c[i] \in {"showDebugText", "checkForPlayerDeath"}
           /\ c[i - 1] = "showDebugText" => c[i] = "checkForPlayerDeath"
           /\ c[i] = "checkForPlayerDeath"
                => c[i - 1] \in {"renderTarget.render", "showDebugText"}
           /\ c[i] = "checkForLevelExitReached"
                => c[i - 1] \in {"checkForPlayerDeath", "fadeInScreen"}
           /\ c[i - 1] = "checkForPlayerDeath"
                => c[i] \in {"checkForLevelExitReached", "fadeOutScreen"}
           /\ c[i - 1] = "fadeInScreen" => c[i] = "checkForLevelExitReached"
      /\ pc = "idle"
           => /\ Count(trace, "checkForPlayerDeath") = FramesStarted
              /\ Count(trace, "checkForLevelExitReached") = FramesStarted

\* A call whose death check restarted the level has returned: both frames
\* made both checks.
C6_Witness ==
  /\ pc = "idle" /\ Restarted
  /\ Count(trace, "checkForPlayerDeath") = 2
  /\ Count(trace, "checkForLevelExitReached") = 2

AtInitialLayout ==
  LET actors == mLevelData.mInitialActors
  IN  /\ Len(entities) = Len(actors)
      /\ \A i \in 1..Len(actors) : entities[i].pos = actors[i].pos

\* C8: an updateAndRender call on an unfinished level whose death check finds
\* the player Dead with health 0 restarts the level, and when that same call
\* returns the player model's health equals the level-start snapshot value
\* and every entity is at its position in the initial actor layout.
C8_RestartRestores ==
  /\ [][ (pc = "checkDeath" /\ Player.mState = "Dead" /\ mPlayerModel.mHealth <= 0)
           => pc' = "fadeOut" ]_vars
  /\ [](pc = "idle" /\ Restarted
          => /\ mPlayerModel.mHealth = mPlayerModelAtLevelStart.mHealth
             /\ AtInitialLayout)

\* A call that restarted the level has returned and the level goes on.
C8_Witness ==
  /\ pc = "idle" /\ Restarted /\ ~mLevelFinished
  /\ mPlayerModel.mHealth = mPlayerModelAtLevelStart.mHealth
  /\ AtInitialLayout

\* The statements of restartLevel up to its render pass, in order.
RestartSteps ==
  << "fadeOutScreen", "mMap=mMapAtLevelStart", "entities.reset",
     "createEntitiesForLevel", "mPlayerModel=mPlayerModelAtLevelStart",
     "updateAndRender(0)" >>

\* C9: every restart performs, in this order and once each: fade-out, map
\* reset, destruction of all entities, recreation from the initial actor
\* list, restore of the player model, one render pass at dt = 0, fade-in; a
\* fade-out is followed by a fade-in before the call returns, with no other
\* fade-out in between.
C9_RestartSequence ==
  LET steps == {i \in 1..Len(trace) :
                  trace[i] \in {"fadeOutScreen", "fadeInScreen", "mMap=mMapAtLevelStart",
                                "entities.reset", "createEntitiesForLevel",
                                "mPlayerModel=mPlayerModelAtLevelStart",
                                "updateAndRender(0)"}}
      outs  == {i \in steps : trace[i] = "fadeOutScreen"}
      ins   == {i \in steps : trace[i] = "fadeInScreen"}
  IN  /\ \A i \in outs :
           /\ \A k \in 1..5 :
                i + k <= Len(trace) => trace[i + k] = RestartSteps[k + 1]
           /\ LET ends == {j \in outs \cup ins : j > i}
              IN  /\ pc = "idle" => ends # {}
                  /\ ends # {}
                       => LET j == CHOOSE e \in ends : \A f \in ends : e <= f
                          IN  /\ j \in ins
                              /\ Cardinality({m \in (i + 1)..(j - 1) :
                                   trace[m] = "update:RenderingSystem"}) = 1
      /\ \A i \in steps \ (outs \cup ins) :
           /\ i > 1
           /\ \E k \in 2..6 :
                trace[i] = RestartSteps[k] /\ trace[i - 1] = RestartSteps[k - 1]
      /\ \A i \in ins : \E o \in outs : o < i
      /\ Cardinality(ins) <= Cardinality(outs)
      /\ depth > 0 => dt = 0

\* A call that restarted the level has returned: one fade-out, one fade-in.
C9_Witness ==
  /\ pc = "idle"
  /\ Count(trace, "fadeOutScreen") = 1
  /\ Count(trace, "fadeInScreen") = 1

\* C10: restartLevel, like every other step, leaves the map snapshot, the
\* player-model snapshot and the initial actor list as loadLevel and the
\* constructor set them, and what a restart has reconstructed when it makes
\* its render pass is a function of them alone: the map is the map snapshot,
\* the player model is its snapshot, and the entities are exactly those the
\* factory creates from the initial actor list.  Any two restarts therefore
\* reconstruct the same map, player model and entity set.
C10_RestartIdempotent ==
  /\ [][ /\ mMapAtLevelStart' = mMapAtLevelStart
         /\ mPlayerModelAtLevelStart' = mPlayerModelAtLevelStart
         /\ mLevelData'.mInitialActors = mLevelData.mInitialActors ]_vars
  /\ [](pc = "nestedFrame"
          => /\ mLevelData.mMap = mMapAtLevelStart
             /\ mMapAtLevelStart = LoadedMap
             /\ mPlayerModel = mPlayerModelAtLevelStart
             /\ entities = createEntitiesForLevel(mLevelData.mInitialActors).ents
             /\ mPlayerEntity = createEntitiesForLevel(mLevelData.mInitialActors).player)

\* A restart has rebuilt the map and the entities and is about to restore a
\* player model that differs from its snapshot.
C10_Witness ==
  /\ pc = "restoreModel"
  /\ mLevelData.mMap = mMapAtLevelStart
  /\ entities = createEntitiesForLevel(mLevelData.mInitialActors).ents
  /\ mPlayerModel # mPlayerModelAtLevelStart
(***************************************************************************)
(* Input handling, checked under SpecInput.  A handleEvent step is one     *)
(* whose new log starts with the call and the event it was given.          *)
(***************************************************************************)
HandlesEvent == Len(trace') >= 3 /\ trace'[1] = "handleEvent"

KeyTypes == {"SDL_KEYDOWN", "SDL_KEYUP"}

\* The keys bound to each input flag.
BoundKeys ==
  [mMovingUp    |-> {"SDLK_UP"},
   mMovingDown  |-> {"SDLK_DOWN"},
   mMovingLeft  |-> {"SDLK_LEFT"},
   mMovingRight |-> {"SDLK_RIGHT"},
   mJumping     |-> {"SDLK_LCTRL", "SDLK_RCTRL"},
   mShooting    |-> {"SDLK_LALT", "SDLK_RALT"}]

\* C11: the six input flags are level-triggered.  No flag is set before the
\* first event, and every handleEvent call given a key-down or key-up event
\* for a key bound to a flag leaves that flag true exactly if the event is
\* a key-down and leaves the other five flags as they were; any other
\* event leaves all six as they were.  By induction each flag is true
\* exactly if the most recent key event for one of its keys was a key-down.
C11_LevelTriggered ==
  /\ mPlayerInputs = NoInputs
  /\ [][ HandlesEvent =>
           \A flag \in DOMAIN BoundKeys :
             IF trace'[2] \in KeyTypes /\ trace'[3] \in BoundKeys[flag]
               THEN mPlayerInputs'[flag] = (trace'[2] = "SDL_KEYDOWN")
               ELSE mPlayerInputs'[flag] = mPlayerInputs[flag] ]_vars

\* The jump flag has just been released through its second key while two
\* other flags stay held.
C11_Witness ==
  /\ trace = <<"handleEvent", "SDL_KEYUP", "SDLK_RCTRL">>
  /\ ~mPlayerInputs.mJumping
  /\ mPlayerInputs.mShooting
  /\ mPlayerInputs.mMovingUp

\* Position in debugFlags of the flag each debug key stands for.
DebugFlagOf == [SDLK_d |-> 1, SDLK_b |-> 2, SDLK_c |-> 3]

DebugKeySyms == {"SDLK_b", "SDLK_c", "SDLK_d"}

\* C12: the debug toggles fire on key-up only.  A handleEvent call given a
\* key-down of B, C or D changes no debug display flag; a call given a
\* key-up of B, C or D flips the one flag of that key (B: bounding boxes,
\* C: world collision data, D: debug text), leaves the other debug flags as
\* they were and leaves all six input flags as they were.
C12_TogglesOnKeyUp ==
  [][ (HandlesEvent /\ trace'[3] \in DebugKeySyms /\ trace'[2] \in KeyTypes) =>
        IF trace'[2] = "SDL_KEYDOWN"
          THEN UNCHANGED debugFlags
          ELSE /\ \A i \in 1..Len(debugFlags) :
                    debugFlags'[i] = IF i = DebugFlagOf[trace'[3]]
                                       THEN ~debugFlags[i]
                                       ELSE debugFlags[i]
               /\ UNCHANGED mPlayerInputs ]_vars

\* A key-up of C has just switched the collision display on while the
\* bounding-box display stays on and a held input flag stays held.
C12_Witness ==
  /\ trace = <<"handleEvent", "SDL_KEYUP", "SDLK_c", "toggleWorldCollisionDataDisplay">>
  /\ mShowWorldCollisionData
  /\ mShowBoundingBoxes
  /\ ~mShowDebugText
  /\ mPlayerInputs.mJumping

\* C13: a handleEvent call given an event that is neither a key-down nor a
\* key-up changes nothing: the input flags, the debug flags, the latch and
\* all other state of the controller stay as they were, whatever the
\* event's key field holds.
C13_OtherEventsIgnored ==
  [][ (HandlesEvent /\ trace'[2] \notin KeyTypes) =>
        UNCHANGED <<drawn, controllerState, pc, depth, dt, iter>> ]_vars

\* An event of another type whose key field reads as the debug-text key
\* has just been ignored while flags are set.
C13_Witness ==
  /\ trace = <<"handleEvent", "SDL_MOUSEMOTION", "SDLK_d">>
  /\ mPlayerInputs.mShooting
  /\ mShowBoundingBoxes
  /\ ~mShowDebugText

(***************************************************************************)
(* The debugging system, checked under SpecDebug.                          *)
(***************************************************************************)
\* The display state of the overlay.
DisplayState == <<mShowBoundingBoxes, mShowWorldCollisionData, mShowGrid>>

\* Position in DisplayState of the flag each toggle call stands for.
FlagOfToggle ==
  [toggleBoundingBoxDisplay |-> 1, toggleWorldCollisionDataDisplay |-> 2,
   toggleGridDisplay |-> 3]

ToggleCalls == DOMAIN FlagOfToggle

\* The display state a log of calls leads to from the all-off state of
\* construction: a display is on exactly if its toggle was called an odd
\* number of times.
DisplayStateAfter(log) ==
  LET flagOf == [i \in 1..3 |-> CHOOSE t \in ToggleCalls : FlagOfToggle[t] = i]
  IN  [i \in 1..3 |-> Count(log, flagOf[i]) % 2 = 1]

\* C14: each toggle is an involution.  Whenever the last two calls made on
\* the debugging system are the same toggle, the display state is the one
\* the calls before those two led to.  (That state is known from the log:
\* every log, also every shorter one, leaves the display state its toggle
\* counts give.)
C14_ToggleInvolution ==
  LET n == Len(trace)
  IN  /\ DisplayState = DisplayStateAfter(trace)
      /\ (n >= 2 /\ trace[n] \in ToggleCalls /\ trace[n - 1] = trace[n])
           => DisplayState = DisplayStateAfter(SubSeq(trace, 1, n - 2))

\* The grid has been toggled twice in a row while the collision display
\* is on: the grid is off again and the collision display still on.
C14_Witness ==
  /\ trace = <<"toggleWorldCollisionDataDisplay", "toggleGridDisplay",
               "toggleGridDisplay">>
  /\ DisplayState = <<FALSE, TRUE, FALSE>>

\* C15: the toggles are independent.  A call of one toggle changes its own
\* flag and leaves the other two display flags, and the debug-text flag,
\* as they were.
C15_TogglesIndependent ==
  [][ \A t \in ToggleCalls :
        trace' = Append(trace, t) =>
          /\ \A i \in 1..Len(DisplayState) :
                (DisplayState'[i] = DisplayState[i]) <=> (i # FlagOfToggle[t])
          /\ UNCHANGED mShowDebugText ]_vars

\* The bounding-box display has just been toggled on while the grid is on
\* and the collision display off.
C15_Witness ==
  /\ trace = <<"toggleGridDisplay", "toggleBoundingBoxDisplay">>
  /\ DisplayState = <<TRUE, FALSE, TRUE>>

\* The last call made was DebuggingSystem::update: drawn holds what it drew
\* under the flags, camera and entities of this state.
AfterUpdate == trace # <<>> /\ trace[Len(trace)] = "update:DebuggingSystem"

Red    == Color(255, 0, 0, 255)
Yellow == Color(255, 255, 0, 255)
Green  == Color(0, 255, 0, 255)

\* The colour-coded rectangles among the draw calls, in drawing order.
ColourCodedBoxes ==
  SelectSeq(drawn, LAMBDA d : d.call = "drawRectangle" /\ d.color \in {Red, Yellow, Green})

\* The entities with both WorldPosition and BoundingBox, in store order.
BoxedEntities ==
  SelectSeq(entities, LAMBDA e : {"WorldPosition", "BoundingBox"} \subseteq Components(e.kind))

\* The priority rule over the four combinations of the two fragments.
PriorityColour(playerDamaging, solidBody) ==
  CASE playerDamaging /\ solidBody   -> Red
    [] playerDamaging /\ ~solidBody  -> Red
    [] ~playerDamaging /\ solidBody  -> Yellow
    [] ~playerDamaging /\ ~solidBody -> Green

\* The screen rectangle of an entity's world-space bounding box, in pixels.
ScreenBoxOf(e) ==
  LET box == toWorldSpace(BoundingBoxOf(e), e.pos)
  IN  [topLeft |-> [x |-> 8 * box.left - 8 * mScrollOffset.x,
                    y |-> 8 * box.top - 8 * mScrollOffset.y],
       size    |-> [width  |-> 8 * BoundingBoxOf(e).size.width,
                    height |-> 8 * BoundingBoxOf(e).size.height]]

\* C16: after an update with the bounding-box display on, the colour-coded
\* rectangles drawn are one per entity that has both WorldPosition and
\* BoundingBox, in store order, each at that entity's box and each red if
\* the entity is PlayerDamaging (SolidBody or not), else yellow if it is a
\* SolidBody, else green; with the display off none is drawn.
C16_BoxColourPriority ==
  AfterUpdate =>
    IF mShowBoundingBoxes
      THEN /\ Len(ColourCodedBoxes) = Len(BoxedEntities)
           /\ \A i \in 1..Len(BoxedEntities) :
                /\ ColourCodedBoxes[i].rect = ScreenBoxOf(BoxedEntities[i])
                /\ ColourCodedBoxes[i].color =
                     PriorityColour("PlayerDamaging" \in Components(BoxedEntities[i].kind),
                                    "SolidBody" \in Components(BoxedEntities[i].kind))
      ELSE ColourCodedBoxes = <<>>

\* An update has drawn the boxes of a level whose entities cover all four
\* combinations, one of them without bounding box, with the camera moved:
\* four boxes, red for the entity with both fragments.
C16_Witness ==
  /\ AfterUpdate
  /\ mShowBoundingBoxes
  /\ mScrollOffset.x = 1
  /\ Len(entities) = 5
  /\ [i \in 1..Len(ColourCodedBoxes) |-> ColourCodedBoxes[i].color]
       = <<Red, Green, Yellow, Red>>

CollisionAlone   == DebuggingSystemUpdate(TRUE, FALSE, FALSE)
BoundingBoxAlone == DebuggingSystemUpdate(FALSE, TRUE, FALSE)
GridAlone        == DebuggingSystemUpdate(FALSE, FALSE, TRUE)

\* C19: the displays superpose.  For every combination of the three flags
\* the draw calls of one update are the draw calls of the collision display
\* alone if it is on, followed by those of the bounding-box display alone
\* if it is on, followed by those of the grid alone if it is on; with all
\* three off update draws nothing.
C19_DrawsSuperpose ==
  AfterUpdate =>
    /\ drawn = (IF mShowWorldCollisionData THEN CollisionAlone ELSE <<>>)
                \o (IF mShowBoundingBoxes THEN BoundingBoxAlone ELSE <<>>)
                \o (IF mShowGrid THEN GridAlone ELSE <<>>)
    /\ (~mShowWorldCollisionData /\ ~mShowBoundingBoxes /\ ~mShowGrid) => drawn = <<>>

\* An update has drawn with all three displays on, each contributing calls.
C19_Witness ==
  /\ AfterUpdate
  /\ mShowWorldCollisionData /\ mShowBoundingBoxes /\ mShowGrid
  /\ CollisionAlone # <<>> /\ BoundingBoxAlone # <<>> /\ GridAlone # <<>>
  /\ Len(drawn) = Len(CollisionAlone) + Len(BoundingBoxAlone) + Len(GridAlone)

(***************************************************************************)
(* Frame phases and the exit-check pass, checked under Spec.               *)
(***************************************************************************)
\* The calls of one activation up to its death check, phase by phase: the
\* input state is forwarded, the gameplay systems are updated, the render
\* target is bound, the rendering system, the debugging system and the HUD
\* draw, the target is unbound, the target is composited, the checks begin.
PhaseOrder ==
  << "AttackSystem.setInputState", "ElevatorSystem.setInputState" >>
  \o SystemOrder
  \o << "bindRenderTarget", "update:RenderingSystem", "update:DebuggingSystem",
        "HudRenderer.updateAndRender", "unbindRenderTarget", "renderTarget.render",
        "checkForPlayerDeath" >>

IsPhaseCall(e) == \E k \in 1..Len(PhaseOrder) : PhaseOrder[k] = e

\* C18: the phases of every updateAndRender activation that is not a no-op
\* are strictly ordered.  The phase calls logged so far repeat PhaseOrder:
\* both setInputState calls come before the first system update, all ten
\* updates before the render target is bound, the rendering system and
\* then the debugging system draw between bind and unbind, the composite
\* follows the unbind, and the death check follows the composite.  At every
\* death check and exit check, each activation started so far has composited.
C18_PhaseOrder ==
  LET calls == SelectSeq(trace, IsPhaseCall)
      checks == {j \in 1..Len(trace) :
                   trace[j] \in {"checkForPlayerDeath", "checkForLevelExitReached"}}
  IN  /\ \A i \in 1..Len(calls) :
           calls[i] = PhaseOrder[((i - 1) % Len(PhaseOrder)) + 1]
      /\ \A j \in checks :
           Count(SubSeq(trace, 1, j), "renderTarget.render")
             = Count(SubSeq(trace, 1, j), "AttackSystem.setInputState")

\* A frame with time passing has gone through all its phases and is at its
\* exit check, no restart involved.
C18_Witness ==
  /\ pc = "exitLoop"
  /\ dt = 1
  /\ ~Restarted
  /\ SelectSeq(trace, IsPhaseCall) = PhaseOrder

\* The LevelExit triggers whose position satisfies the exit condition
\* against the player's bounding box.
MatchingExits ==
  {i \in 1..Len(entities) :
     /\ entities[i].kind = "Trigger"
     /\ entities[i].trigger = "LevelExit"
     /\ exitReached(entities[i].pos)}

\* The exit-check pass has visited every trigger and is about to return.
ExitPassDone == pc = "exitLoop" /\ iter > Len(entities)

\* C20: the result of an exit-check pass does not depend on where in the
\* store the LevelExit triggers lie.  When a pass ends, mLevelFinished is
\* true exactly if at least one LevelExit trigger satisfies the exit
\* condition, be it the first or a later one the store yields; a trigger
\* visited after a match does not take the match back.
C20_ExitPassOrderFree ==
  ExitPassDone => (mLevelFinished <=> MatchingExits # {})

\* On the level with two exits a pass that began unfinished has ended with
\* only the first exit matching: the second, visited later, left the match.
C20_Witness ==
  /\ ExitPassDone
  /\ ~Restarted
  /\ Count(trace, "checkForLevelExitReached") = 1
  /\ mLevelData.mInitialActors = TwoExitLevel
  /\ MatchingExits = {1}
  /\ mLevelFinished

(***************************************************************************)
(* Restart, checked under SpecFair.                                        *)
(***************************************************************************)
\* Control is inside restartLevel, before its call of updateAndRender(0)
\* has been entered.
StartingRestart ==
  pc \in {"fadeOut", "mapReset", "entitiesReset", "createEntities",
          "restoreModel", "nestedFrame"}

\* C21: a restart always completes.  The updateAndRender(0) activation that
\* restartLevel nests never starts a restart of its own, so at most one
\* activation is ever nested inside the running call, and every call of
\* updateAndRender that has been entered returns to its caller.
C21_RestartCompletes ==
  /\ [](depth <= 1)
  /\ [](depth >= 1 => ~StartingRestart)
  /\ (pc # "idle") ~> (pc = "idle")

\* A call that restarted the level has returned, the nested activation
\* having made its own death check.
C21_Witness ==
  /\ pc = "idle"
  /\ depth = 0
  /\ Count(trace, "updateAndRender(0)") = 1
  /\ Count(trace, "checkForPlayerDeath") = 2
  /\ trace[Len(trace)] = "return"

\* The steps of updateAndRender that update a system constructed with the
\* player handle (lines 297-350).
PlayerSystemUpdates ==
  {"updElevator", "updMovement", "updAttack", "updInteraction",
   "updSecurityCamera", "updPlayerDamage", "updAnimation", "updMapScroll"}

====
